---------------------------- MODULE Spec2Model ----------------------------
(***************************************************************************)
(* The erfgoedbot webhook relay (KBNLresearch/erfgoedbot).                 *)
(*                                                                         *)
(* Two entry files of the repository are modelled side by side:            *)
(*   "app"  : src/src/app.js      (send functions defined in the file)     *)
(*   "lib"  : src/unnamed/part_000 (send functions taken from fb-lib)      *)
(* The variable `variant` says which of the two is running.                *)
(*                                                                         *)
(* Node runs every callback to completion: the POST /webhook handler, a    *)
(* search-completion callback, a timer callback and a Send API completion  *)
(* callback are tasks of one event loop.  `pc` is the position of the      *)
(* task that handles a request; the other callbacks run only when          *)
(* pc = "idle".                                                            *)
(*                                                                         *)
(* Strings the program inspects (the message text) are sequences of        *)
(* one-character strings; strings it only copies are TLA+ strings.         *)
(***************************************************************************)
EXTENDS Naturals, Integers, Sequences, FiniteSets

VARIABLES
    variant,    \* "app" or "lib": the entry file that runs
    mock,       \* process.env.MODE === 'mock'
    crashed,    \* an exception escaped a callback: the process is gone
    pc,         \* "idle", "verify" or "handler"
    k,          \* index of the next messaging event of the request in hand
    reqs,       \* the requests received so far, with what became of them
    handled,    \* the messaging events dispatched so far, in order
    log,        \* per dispatched event: what it caused, in program order
    pending,    \* search calls whose callback has not run yet
    timers,     \* setTimeout callbacks that have not fired yet
    netBusy     \* some Send API request awaits its completion callback

vars == <<variant, mock, crashed, pc, k, reqs, handled, log, pending, timers, netBusy>>

----------------------------------------------------------------------------
(* Bounds of the model *)

MaxEvents == 2
MaxTextLen == 3

(* Program constants *)

LinkDelay == 3000
SocialDelay == 4000
CollectionDelay == 5000
StatusOK == 200

----------------------------------------------------------------------------
(* Text: String.prototype.trim, toLowerCase, indexOf, split *)

White == {" ", "\t"}

Upper == {"A", "U", "T", "R", "E", "C", "H", "S", "P", "I"}

LowerOfChar(c) ==
    CASE c = "A" -> "a" [] c = "U" -> "u" [] c = "T" -> "t" [] c = "R" -> "r"
      [] c = "E" -> "e" [] c = "C" -> "c" [] c = "H" -> "h" [] c = "S" -> "s"
      [] c = "P" -> "p" [] c = "I" -> "i" [] OTHER -> c

RECURSIVE dropWhite(_)
dropWhite(s) ==
    IF s # <<>> /\ Head(s) \in White THEN dropWhite(Tail(s)) ELSE s

RECURSIVE dropWhiteEnd(_)
dropWhiteEnd(s) ==
    IF s # <<>> /\ s[Len(s)] \in White THEN dropWhiteEnd(SubSeq(s, 1, Len(s) - 1)) ELSE s

trim(s) == dropWhiteEnd(dropWhite(s))

toLowerCase(s) == [i \in 1..Len(s) |-> LowerOfChar(s[i])]

\* 0-based position of the first c in s, -1 when there is none
indexOf(s, c) ==
    IF \E i \in 1..Len(s) : s[i] = c
    THEN (CHOOSE i \in 1..Len(s) : s[i] = c /\ \A j \in 1..(i - 1) : s[j] # c) - 1
    ELSE -1

RECURSIVE split(_, _)
split(s, c) ==
    LET i == indexOf(s, c)
    IN  IF i = -1 THEN <<s>>
        ELSE <<SubSeq(s, 1, i)>> \o split(SubSeq(s, i + 2, Len(s)), c)

----------------------------------------------------------------------------
(* What a callback does, in program order: a sequence of operations.       *)
(*   send  : one callSendAPI(messageData)                                  *)
(*   timer : one setTimeout(f, delay); `then` is what f does               *)
(*   call  : one call of the search collaborator; `cb` names the callback  *)
(* A text is a tuple of strings (the pieces of a template literal), a URL  *)
(* and a button target likewise.                                           *)

Send(to, kind, body, buttons) ==
    [op |-> "send", to |-> to, kind |-> kind, body |-> body, buttons |-> buttons,
     delay |-> 0, then |-> <<>>, fn |-> "", args |-> <<>>, cb |-> ""]

Timer(delay, then) ==
    [op |-> "timer", to |-> "", kind |-> "", body |-> <<>>, buttons |-> <<>>,
     delay |-> delay, then |-> then, fn |-> "", args |-> <<>>, cb |-> ""]

Call(fn, args, cb, senderID) ==
    [op |-> "call", to |-> senderID, kind |-> "", body |-> <<>>, buttons |-> <<>>,
     delay |-> 0, then |-> <<>>, fn |-> fn, args |-> args, cb |-> cb]

sendTextMessage(recipientId, messageText) ==
    <<Send(recipientId, "text", messageText, <<>>)>>

sendTypingOn(recipientId) == <<Send(recipientId, "typing_on", <<>>, <<>>)>>

sendTypingOff(recipientId) == <<Send(recipientId, "typing_off", <<>>, <<>>)>>

sendButtonMessage(recipientId, buttons) ==
    <<Send(recipientId, "template", <<buttons.text>>,
           [i \in 1..Len(buttons.data) |->
               [type |-> "postback", title |-> buttons.data[i].title,
                target |-> <<buttons.data[i].payload>>]])>>

sendURL(recId, url) ==
    <<Send(recId, "template", <<"Wil je meer weten?">>,
           <<[type |-> "web_url", title |-> "Lees verder", target |-> url]>>)>>

\* the two random integers of the text are not recorded
SocialText == <<"N mensen zagen deze afbeelding ook, M mensen kijken op dit moment">>

sendDelayedRandomizedSocialFeedback(recipientId) ==
    <<Timer(SocialDelay, sendTextMessage(recipientId, SocialText))>>

\* src/src/app.js: the image, and the social-proof timer set by the same function
sendImageMessage(recipientId, url) ==
    <<Send(recipientId, "image", <<url, "?width=800">>, <<>>),
      Timer(SocialDelay, sendTextMessage(recipientId, SocialText))>>

\* fb-lib's sendImageMessage (not in src/): the image alone
fbSendImageMessage(recipientId, url) ==
    <<Send(recipientId, "image", <<url, "?width=800">>, <<>>)>>

ReferenceURL(id) == <<"http://www.wikidata.org/wiki/", id>>

Caption(images) == <<"Je gaat zo zien: ", images.label, ", ", images.description>>

----------------------------------------------------------------------------
(* Messaging events.  A tag is a property of the event object; several may *)
(* be present.  The message fields matter only under the message tag, the  *)
(* payload only under the postback tag.                                    *)

Tags == {"message", "postback", "delivery", "read", "optin", "account_linking"}

Event(sender, tags, is_echo, quick_reply, hasText, text, payload) ==
    [sender |-> sender, tags |-> tags, is_echo |-> is_echo, quick_reply |-> quick_reply,
     hasText |-> hasText, text |-> text, payload |-> payload]

\* if (messageText): a string is truthy unless it is empty
TextTruthy(event) == event.hasText /\ event.text # <<>>

----------------------------------------------------------------------------
(* Handlers *)

\* Faulty variant of receivedAuthentication: the authentication is logged only.
receivedAuthenticationSilent(event) == <<>>

receivedAuthentication(event) ==
    sendTextMessage(event.sender, <<"Authentication successful">>)

\* Faulty variant of searchCall: the dates are passed in their input order.
searchCallInOrder(messageText, senderID) ==
    LET parsedMsg == toLowerCase(trim(messageText))
    IN  IF indexOf(parsedMsg, "-") # -1
        THEN LET dates == split(parsedMsg, "-")
             IN  <<Call("painterByDate", <<dates[1], dates[2]>>, "handleSearchResponse", senderID)>>
        ELSE IF parsedMsg = <<"u", "t", "r", "e", "c", "h", "t">>
        THEN <<Call("getMonuments", <<>>, "handleSearchResponse", senderID)>>
        ELSE IF parsedMsg = <<"s", "u", "r", "p", "r", "i", "s", "e">>
        THEN <<Call("randomArtist", <<>>, "handleSearchResponse", senderID)>>
        ELSE <<Call("searchPainters", <<parsedMsg>>, "handleSearchResponse", senderID)>>

\* Faulty variant of searchCall: the text is trimmed but not lowercased.
searchCallCaseSensitive(messageText, senderID) ==
    LET parsedMsg == trim(messageText)
    IN  IF indexOf(parsedMsg, "-") # -1
        THEN LET dates == split(parsedMsg, "-")
             IN  <<Call("painterByDate", <<dates[2], dates[1]>>, "handleSearchResponse", senderID)>>
        ELSE IF parsedMsg = <<"u", "t", "r", "e", "c", "h", "t">>
        THEN <<Call("getMonuments", <<>>, "handleSearchResponse", senderID)>>
        ELSE IF parsedMsg = <<"s", "u", "r", "p", "r", "i", "s", "e">>
        THEN <<Call("randomArtist", <<>>, "handleSearchResponse", senderID)>>
        ELSE <<Call("searchPainters", <<parsedMsg>>, "handleSearchResponse", senderID)>>

\* the search call chosen from the text
searchCall(messageText, senderID) ==
    LET parsedMsg == toLowerCase(trim(messageText))
    IN  IF indexOf(parsedMsg, "-") # -1
        THEN LET dates == split(parsedMsg, "-")
             IN  <<Call("painterByDate", <<dates[2], dates[1]>>, "handleSearchResponse", senderID)>>
        ELSE IF parsedMsg = <<"u", "t", "r", "e", "c", "h", "t">>
        THEN <<Call("getMonuments", <<>>, "handleSearchResponse", senderID)>>
        ELSE IF parsedMsg = <<"s", "u", "r", "p", "r", "i", "s", "e">>
        THEN <<Call("randomArtist", <<>>, "handleSearchResponse", senderID)>>
        ELSE <<Call("searchPainters", <<parsedMsg>>, "handleSearchResponse", senderID)>>

\* Faulty variant of receivedMessage: the text is tested before the quick reply.
receivedMessageTextFirst(event) ==
    LET senderID == event.sender
    IN  IF event.is_echo THEN <<>>
        ELSE IF TextTruthy(event)
        THEN sendTextMessage(senderID, <<"Ik ben nu aan het zoeken, een momentje...">>)
             \o sendTypingOn(senderID)
             \o searchCall(event.text, senderID)
        ELSE IF event.quick_reply
        THEN sendTextMessage(senderID, <<"Quick reply tapped">>)
        ELSE sendTextMessage(senderID, <<"Sorry, dit snap ik even niet.">>)

\* Faulty variant of receivedMessage: the quick reply is tested before the echo.
receivedMessageQuickFirst(event) ==
    LET senderID == event.sender
    IN  IF event.quick_reply
        THEN sendTextMessage(senderID, <<"Quick reply tapped">>)
        ELSE IF event.is_echo THEN <<>>
        ELSE IF TextTruthy(event)
        THEN sendTextMessage(senderID, <<"Ik ben nu aan het zoeken, een momentje...">>)
             \o sendTypingOn(senderID)
             \o searchCall(event.text, senderID)
        ELSE sendTextMessage(senderID, <<"Sorry, dit snap ik even niet.">>)

\* Faulty variant of receivedMessage: the typing indicator is turned on before the
\* acknowledgment is sent.
receivedMessageTypingFirst(event) ==
    LET senderID == event.sender
    IN  IF event.is_echo THEN <<>>
        ELSE IF event.quick_reply
        THEN sendTextMessage(senderID, <<"Quick reply tapped">>)
        ELSE IF TextTruthy(event)
        THEN sendTypingOn(senderID)
             \o sendTextMessage(senderID, <<"Ik ben nu aan het zoeken, een momentje...">>)
             \o searchCall(event.text, senderID)
        ELSE sendTextMessage(senderID, <<"Sorry, dit snap ik even niet.">>)

receivedMessage(event) ==
    LET senderID == event.sender
    IN  IF event.is_echo THEN <<>>
        ELSE IF event.quick_reply
        THEN sendTextMessage(senderID, <<"Quick reply tapped">>)
        ELSE IF TextTruthy(event)
        THEN sendTextMessage(senderID, <<"Ik ben nu aan het zoeken, een momentje...">>)
             \o sendTypingOn(senderID)
             \o searchCall(event.text, senderID)
        ELSE sendTextMessage(senderID, <<"Sorry, dit snap ik even niet.">>)

\* Faulty variant of handleSearchResponse: the typing indicator is turned off after the
\* result has been sent.
handleSearchResponseOffLast(v, senderID, r) ==
    (IF r.err # "" THEN sendTextMessage(senderID, <<r.err>>)
     ELSE (IF r.type = "buttons" THEN sendButtonMessage(senderID, r.buttons) ELSE <<>>)
       \o (IF r.type = "images"
           THEN sendTextMessage(senderID, Caption(r.images))
                \o (IF v = "app"
                    THEN sendImageMessage(senderID, r.images.image)
                         \o <<Timer(LinkDelay, sendURL(senderID, ReferenceURL(r.images.id)))>>
                    ELSE fbSendImageMessage(senderID, r.images.image)
                         \o <<Timer(LinkDelay, sendURL(senderID, ReferenceURL(r.images.id)))>>
                         \o sendDelayedRandomizedSocialFeedback(senderID))
           ELSE <<>>)
       \o (IF r.type = "text" THEN sendTextMessage(senderID, <<r.text>>) ELSE <<>>))
    \o sendTypingOff(senderID)

\* Faulty variant of handleSearchResponse: the error is reported with the prefix
\* the postback path uses.
handleSearchResponsePrefixed(v, senderID, r) ==
    sendTypingOff(senderID)
    \o  IF r.err # "" THEN sendTextMessage(senderID, <<"Er ging iets mis: ", r.err>>)
        ELSE (IF r.type = "buttons" THEN sendButtonMessage(senderID, r.buttons) ELSE <<>>)
          \o (IF r.type = "images"
              THEN sendTextMessage(senderID, Caption(r.images))
                   \o (IF v = "app"
                       THEN sendImageMessage(senderID, r.images.image)
                            \o <<Timer(LinkDelay, sendURL(senderID, ReferenceURL(r.images.id)))>>
                       ELSE fbSendImageMessage(senderID, r.images.image)
                            \o <<Timer(LinkDelay, sendURL(senderID, ReferenceURL(r.images.id)))>>
                            \o sendDelayedRandomizedSocialFeedback(senderID))
              ELSE <<>>)
          \o (IF r.type = "text" THEN sendTextMessage(senderID, <<r.text>>) ELSE <<>>)

\* Faulty variant of handleSearchResponse: the link is sent at once, not by a timer.
handleSearchResponseLinkNow(v, senderID, r) ==
    sendTypingOff(senderID)
    \o  IF r.err # "" THEN sendTextMessage(senderID, <<r.err>>)
        ELSE (IF r.type = "buttons" THEN sendButtonMessage(senderID, r.buttons) ELSE <<>>)
          \o (IF r.type = "images"
              THEN sendTextMessage(senderID, Caption(r.images))
                   \o (IF v = "app"
                       THEN sendImageMessage(senderID, r.images.image)
                            \o sendURL(senderID, ReferenceURL(r.images.id))
                       ELSE fbSendImageMessage(senderID, r.images.image)
                            \o sendURL(senderID, ReferenceURL(r.images.id))
                            \o sendDelayedRandomizedSocialFeedback(senderID))
              ELSE <<>>)
          \o (IF r.type = "text" THEN sendTextMessage(senderID, <<r.text>>) ELSE <<>>)

\* Faulty variant of handleSearchResponse: the typing indicator is turned off
\* only when the search succeeded.
handleSearchResponseOffOnSuccess(v, senderID, r) ==
    IF r.err # "" THEN sendTextMessage(senderID, <<r.err>>)
    ELSE sendTypingOff(senderID)
      \o (IF r.type = "buttons" THEN sendButtonMessage(senderID, r.buttons) ELSE <<>>)
      \o (IF r.type = "images"
          THEN sendTextMessage(senderID, Caption(r.images))
               \o (IF v = "app"
                   THEN sendImageMessage(senderID, r.images.image)
                        \o <<Timer(LinkDelay, sendURL(senderID, ReferenceURL(r.images.id)))>>
                   ELSE fbSendImageMessage(senderID, r.images.image)
                        \o <<Timer(LinkDelay, sendURL(senderID, ReferenceURL(r.images.id)))>>
                        \o sendDelayedRandomizedSocialFeedback(senderID))
          ELSE <<>>)
      \o (IF r.type = "text" THEN sendTextMessage(senderID, <<r.text>>) ELSE <<>>)

\* the callback of the message path; r is what the collaborator passes: (err, data)
handleSearchResponse(v, senderID, r) ==
    sendTypingOff(senderID)
    \o  IF r.err # "" THEN sendTextMessage(senderID, <<r.err>>)
        ELSE (IF r.type = "buttons" THEN sendButtonMessage(senderID, r.buttons) ELSE <<>>)
          \o (IF r.type = "images"
              THEN sendTextMessage(senderID, Caption(r.images))
                   \o (IF v = "app"
                       THEN sendImageMessage(senderID, r.images.image)
                            \o <<Timer(LinkDelay, sendURL(senderID, ReferenceURL(r.images.id)))>>
                       ELSE fbSendImageMessage(senderID, r.images.image)
                            \o <<Timer(LinkDelay, sendURL(senderID, ReferenceURL(r.images.id)))>>
                            \o sendDelayedRandomizedSocialFeedback(senderID))
              ELSE <<>>)
          \o (IF r.type = "text" THEN sendTextMessage(senderID, <<r.text>>) ELSE <<>>)

receivedDeliveryConfirmation(event) == <<>>

receivedMessageRead(event) == <<>>

receivedAccountLink(event) == <<>>

\* Faulty variant of receivedPostback: the acknowledgment is forgotten.
receivedPostbackNoAck(event) ==
    <<Call("paintingsByArtist", <<event.payload>>, "postbackCallback", event.sender)>>

receivedPostback(event) ==
    <<Call("paintingsByArtist", <<event.payload>>, "postbackCallback", event.sender)>>
    \o sendTextMessage(event.sender, <<"Ik ben nu een schilderij aan het ophalen...">>)

\* Faulty variant of collectionFollowUp: the link always goes to the reference URL.
collectionFollowUpReferenceOnly(senderID, images) ==
    sendTextMessage(senderID, <<"Dit kun je trouwens zien in de collectie van ", images.collection>>)
    \o sendURL(senderID, ReferenceURL(images.id))
    \o sendButtonMessage(senderID,
           [text |-> "Nog een werk van deze schilder?",
            data |-> <<[title |-> "Ja, leuk!", payload |-> images.author]>>])

\* what the collection timer does when it fires
collectionFollowUp(senderID, images) ==
    sendTextMessage(senderID, <<"Dit kun je trouwens zien in de collectie van ", images.collection>>)
    \o sendURL(senderID, IF images.url # "" THEN <<images.url>> ELSE ReferenceURL(images.id))
    \o sendButtonMessage(senderID,
           [text |-> "Nog een werk van deze schilder?",
            data |-> <<[title |-> "Ja, leuk!", payload |-> images.author]>>])

\* Faulty variant of postbackCallback: the error is sent without the prefix.
postbackCallbackBareError(v, senderID, r) ==
    IF r.err # "" THEN sendTextMessage(senderID, <<r.err>>)
    ELSE IF r.type = "images"
    THEN sendTextMessage(senderID, Caption(r.images))
         \o (IF v = "app"
             THEN sendImageMessage(senderID, r.images.image)
             ELSE fbSendImageMessage(senderID, r.images.image)
                  \o sendDelayedRandomizedSocialFeedback(senderID))
         \o (IF r.images.collection # ""
             THEN <<Timer(CollectionDelay, collectionFollowUp(senderID, r.images))>>
             ELSE <<>>)
    ELSE <<>>

\* Faulty variant of postbackCallback: the collection follow-up is scheduled
\* whether or not the result names a collection.
postbackCallbackAlwaysCollection(v, senderID, r) ==
    IF r.err # "" THEN sendTextMessage(senderID, <<"Er ging iets mis: ", r.err>>)
    ELSE IF r.type = "images"
    THEN sendTextMessage(senderID, Caption(r.images))
         \o (IF v = "app"
             THEN sendImageMessage(senderID, r.images.image)
             ELSE fbSendImageMessage(senderID, r.images.image)
                  \o sendDelayedRandomizedSocialFeedback(senderID))
         \o <<Timer(CollectionDelay, collectionFollowUp(senderID, r.images))>>
    ELSE <<>>

\* Faulty variant of postbackCallback: buttons and texts are sent as on the
\* message path.
postbackCallbackLikeMessage(v, senderID, r) ==
    IF r.err # "" THEN sendTextMessage(senderID, <<"Er ging iets mis: ", r.err>>)
    ELSE (IF r.type = "buttons" THEN sendButtonMessage(senderID, r.buttons) ELSE <<>>)
      \o (IF r.type = "images"
          THEN sendTextMessage(senderID, Caption(r.images))
               \o (IF v = "app"
                   THEN sendImageMessage(senderID, r.images.image)
                   ELSE fbSendImageMessage(senderID, r.images.image)
                        \o sendDelayedRandomizedSocialFeedback(senderID))
               \o (IF r.images.collection # ""
                   THEN <<Timer(CollectionDelay, collectionFollowUp(senderID, r.images))>>
                   ELSE <<>>)
          ELSE <<>>)
      \o (IF r.type = "text" THEN sendTextMessage(senderID, <<r.text>>) ELSE <<>>)

\* the callback of the postback path
postbackCallback(v, senderID, r) ==
    IF r.err # "" THEN sendTextMessage(senderID, <<"Er ging iets mis: ", r.err>>)
    ELSE IF r.type = "images"
    THEN sendTextMessage(senderID, Caption(r.images))
         \o (IF v = "app"
             THEN sendImageMessage(senderID, r.images.image)
             ELSE fbSendImageMessage(senderID, r.images.image)
                  \o sendDelayedRandomizedSocialFeedback(senderID))
         \o (IF r.images.collection # ""
             THEN <<Timer(CollectionDelay, collectionFollowUp(senderID, r.images))>>
             ELSE <<>>)
    ELSE <<>>

----------------------------------------------------------------------------
(* The dispatcher of app.post: which handler an event goes to *)

\* Faulty variant of Route: postback is tested before delivery.
RoutePostbackFirst(v, event) ==
    IF v = "app"
    THEN IF "optin" \in event.tags THEN "receivedAuthentication"
         ELSE IF "message" \in event.tags THEN "receivedMessage"
         ELSE IF "postback" \in event.tags THEN "receivedPostback"
         ELSE IF "delivery" \in event.tags THEN "receivedDeliveryConfirmation"
         ELSE IF "read" \in event.tags THEN "receivedMessageRead"
         ELSE IF "account_linking" \in event.tags THEN "receivedAccountLink"
         ELSE "unknown"
    ELSE IF "message" \in event.tags THEN "receivedMessage"
         ELSE IF "postback" \in event.tags THEN "receivedPostback"
         ELSE IF "delivery" \in event.tags THEN "receivedDeliveryConfirmation"
         ELSE IF "read" \in event.tags THEN "receivedMessageRead"
         ELSE "unknown"


Route(v, event) ==
    IF v = "app"
    THEN IF "optin" \in event.tags THEN "receivedAuthentication"
         ELSE IF "message" \in event.tags THEN "receivedMessage"
         ELSE IF "delivery" \in event.tags THEN "receivedDeliveryConfirmation"
         ELSE IF "postback" \in event.tags THEN "receivedPostback"
         ELSE IF "read" \in event.tags THEN "receivedMessageRead"
         ELSE IF "account_linking" \in event.tags THEN "receivedAccountLink"
         ELSE "unknown"
    ELSE IF "message" \in event.tags THEN "receivedMessage"
         ELSE IF "delivery" \in event.tags THEN "receivedDeliveryConfirmation"
         ELSE IF "postback" \in event.tags THEN "receivedPostback"
         ELSE IF "read" \in event.tags THEN "receivedMessageRead"
         ELSE "unknown"

HandlerOps(handler, event) ==
    CASE handler = "receivedAuthentication" -> receivedAuthentication(event)
      [] handler = "receivedMessage" -> receivedMessage(event)
      [] handler = "receivedDeliveryConfirmation" -> receivedDeliveryConfirmation(event)
      [] handler = "receivedPostback" -> receivedPostback(event)
      [] handler = "receivedMessageRead" -> receivedMessageRead(event)
      [] handler = "receivedAccountLink" -> receivedAccountLink(event)
      [] OTHER -> <<>>

\* Faulty variant of CallbackOps: senderID is one variable shared by all events
\* (a missing declaration), so a callback sees the sender of the latest event.
CallbackOpsLastSender(v, call, r) ==
    IF call.cb = "handleSearchResponse"
    THEN handleSearchResponse(v, handled[Len(handled)].event.sender, r)
    ELSE postbackCallback(v, handled[Len(handled)].event.sender, r)

CallbackOps(v, call, r) ==
    IF call.cb = "handleSearchResponse"
    THEN handleSearchResponse(v, call.to, r)
    ELSE postbackCallback(v, call.to, r)

\* every messaging event of the body, in the order the two forEach loops visit them
RECURSIVE Flatten(_)
Flatten(entry) ==
    IF entry = <<>> THEN <<>> ELSE Head(entry).messaging \o Flatten(Tail(entry))

----------------------------------------------------------------------------
(* Signature verification (the verify hook of bodyParser.json) *)

APP_SECRET == "app-secret"

\* a piece of a header that is plain text, such as the method name "sha1"
Lit(s) == [lit |-> s, key |-> "", bytes |-> <<>>]

\* the hex HMAC-SHA1 of buf under secret, as an ideal keyed digest:
\* two digests are equal only for equal keys and equal bytes
Hmac(secret, buf) == [lit |-> "", key |-> secret, bytes |-> <<buf>>]

\* The x-hub-signature header is kept as the pieces signature.split('=') yields;
\* an absent header has present = FALSE, the empty string is the one piece "".
HeaderTruthy(h) == h.present /\ h.parts # <<Lit("")>>

\* Faulty variant of verifyRequestSignature: a mismatch is logged like a missing header.
verifyLogsMismatch(req) ==
    LET signature == req.signature
    IN  IF ~HeaderTruthy(signature) THEN "logged"
        ELSE LET elements == signature.parts
                 expectedHash == Hmac(APP_SECRET, req.body)
             IN  IF Len(elements) < 2 \/ elements[2] # expectedHash
                 THEN "logged"
                 ELSE "ok"

\* Faulty variant of verifyRequestSignature: a missing header throws, as the comment in
\* the source recommends for production.
verifyThrowsWhenAbsent(req) ==
    LET signature == req.signature
    IN  IF ~HeaderTruthy(signature) THEN "throw"
        ELSE LET elements == signature.parts
                 expectedHash == Hmac(APP_SECRET, req.body)
             IN  IF Len(elements) < 2 \/ elements[2] # expectedHash
                 THEN "throw"
                 ELSE "ok"

\* "logged" (no signature), "ok" or "throw"
verifyRequestSignature(req) ==
    LET signature == req.signature
    IN  IF ~HeaderTruthy(signature) THEN "logged"
        ELSE LET elements == signature.parts
                 expectedHash == Hmac(APP_SECRET, req.body)
             IN  IF Len(elements) < 2 \/ elements[2] # expectedHash
                 THEN "throw"
                 ELSE "ok"

----------------------------------------------------------------------------
(* The outbound client and the search collaborator *)

\* Faulty variant of NetRequests: the mock mode is not consulted.
NetRequestsAlways(isMock, ops) ==
    Cardinality({i \in 1..Len(ops) : ops[i].op = "send"})

\* callSendAPI: in mock mode the payload is only logged, otherwise one request
\* to the Send API is issued per send
NetRequests(isMock, ops) ==
    IF isMock THEN 0 ELSE Cardinality({i \in 1..Len(ops) : ops[i].op = "send"})

\* The completion callback of a Send API request; outcome is "ok" (status 200),
\* "status" (another status) or "error" (a transport error, no response).
\* In src/src/app.js the failure branch reads response.statusCode, which
\* throws when there is no response.
callSendAPICallback(outcome) ==
    IF outcome = "ok" THEN "logged"
    ELSE IF outcome = "error" THEN "throw"
    ELSE "logged"

\* fb-lib's completion callback (not in src/): failures are logged and swallowed
fbCallSendAPICallback(outcome) == "logged"

SendOutcomes == {"ok", "status", "error"}

\* What the search collaborator (bot.js, not in src/) may pass to a callback
NoImages ==
    [id |-> "", image |-> "", label |-> "", description |-> "", collection |-> "",
     url |-> "", author |-> ""]

NoButtons == [text |-> "", data |-> <<>>]

SampleButtons ==
    [text |-> "Welke schilder bedoel je?",
     data |-> <<[title |-> "Rembrandt", payload |-> "Q5598"],
                [title |-> "Vermeer", payload |-> "Q41264"]>>]

ImageResults ==
    {[id |-> "Q42", image |-> "http://x/y.png", label |-> "L", description |-> "D",
      collection |-> c, url |-> u, author |-> "Q5598"] :
        c \in {"", "Rijksmuseum"}, u \in {"", "http://museum/42"}}

SearchOutcomes ==
    {[err |-> "zoeken mislukt", type |-> "", buttons |-> NoButtons, text |-> "", images |-> NoImages],
     [err |-> "", type |-> "buttons", buttons |-> SampleButtons, text |-> "", images |-> NoImages],
     [err |-> "", type |-> "text", buttons |-> NoButtons, text |-> "Niets gevonden", images |-> NoImages],
     [err |-> "", type |-> "audio", buttons |-> NoButtons, text |-> "", images |-> NoImages]}
    \cup {[err |-> "", type |-> "images", buttons |-> NoButtons, text |-> "", images |-> im] :
            im \in ImageResults}

----------------------------------------------------------------------------
(* State *)

Variants == {"app", "lib"}

Init ==
    /\ variant \in Variants
    /\ mock \in BOOLEAN
    /\ crashed = FALSE
    /\ pc = "idle"
    /\ k = 0
    /\ reqs = <<>>
    /\ handled = <<>>
    /\ log = <<>>
    /\ pending = {}
    /\ timers = {}
    /\ netBusy = FALSE

\* the request in hand
cur == Len(reqs)

Events(req) == Flatten(req.body.entry)

\* whether the HTTP response of the request that carried event ev is out
Answered(ev) == reqs[handled[ev].req].responses # <<>>

\* Run the operations ops on behalf of event ev: every send goes to callSendAPI,
\* every setTimeout and every search call leaves a callback behind.
Run(ev, ops, via, after, answered, logBase, pendingBase, timersBase) ==
    LET base == Len(logBase[ev])
        idx(kind) == {i \in 1..Len(ops) : ops[i].op = kind}
    IN  /\ log' = [logBase EXCEPT ![ev] = @ \o
                      [i \in 1..Len(ops) |->
                          [o |-> ops[i], via |-> via, after |-> after, answered |-> answered]]]
        /\ timers' = timersBase \cup
               {[ev |-> ev, id |-> base + i, delay |-> ops[i].delay, then |-> ops[i].then] :
                   i \in idx("timer")}
        /\ pending' = pendingBase \cup
               {[ev |-> ev, id |-> base + i, fn |-> ops[i].fn, args |-> ops[i].args,
                 cb |-> ops[i].cb, to |-> ops[i].to] : i \in idx("call")}
        /\ netBusy' = (netBusy \/ NetRequests(mock, ops) > 0)

----------------------------------------------------------------------------
(* Actions *)

\* A POST /webhook request reaches the body parser.
Arrive(req) ==
    /\ pc = "idle" /\ ~crashed
    /\ reqs' = Append(reqs, [req |-> req, verdict |-> "", responses |-> <<>>, dispatched |-> 0])
    /\ pc' = "verify"
    /\ UNCHANGED <<variant, mock, crashed, k, handled, log, pending, timers, netBusy>>

\* bodyParser.json calls the verify hook; when it throws, the route handler
\* is never called.
Verify ==
    /\ pc = "verify"
    /\ LET verdict == verifyRequestSignature(reqs[cur].req)
       IN  /\ reqs' = [reqs EXCEPT ![cur].verdict = verdict]
           /\ pc' = IF verdict = "throw" THEN "idle" ELSE "handler"
    /\ k' = 1
    /\ UNCHANGED <<variant, mock, crashed, handled, log, pending, timers, netBusy>>

\* One turn of the inner forEach: the event goes to its handler.
DispatchEvent ==
    /\ pc = "handler"
    /\ reqs[cur].req.body.object = "page"
    /\ k <= Len(Events(reqs[cur].req))
    /\ LET event == Events(reqs[cur].req)[k]
           handler == Route(variant, event)
           ev == Len(handled) + 1
       IN  /\ handled' = Append(handled,
                  [req |-> cur, event |-> event, handler |-> handler, results |-> <<>>])
           /\ Run(ev, HandlerOps(handler, event), "handler", 0, FALSE,
                  Append(log, <<>>), pending, timers)
    /\ reqs' = [reqs EXCEPT ![cur].dispatched = @ + 1]
    /\ k' = k + 1
    /\ UNCHANGED <<variant, mock, crashed, pc>>

\* Faulty variant of Respond: the status is sent inside the outer loop, once per entry.
RespondEachEntry ==
    /\ pc = "handler"
    /\ reqs[cur].req.body.object = "page"
    /\ k > Len(Events(reqs[cur].req))
    /\ reqs' = [reqs EXCEPT ![cur].responses =
                   @ \o [i \in 1..Len(reqs[cur].req.body.entry) |-> StatusOK]]
    /\ pc' = "idle"
    /\ UNCHANGED <<variant, mock, crashed, k, handled, log, pending, timers, netBusy>>

\* Faulty variant of Respond: the status is left to the search callbacks when the
\* request started a search.
RespondWhenQuiet ==
    /\ pc = "handler"
    /\ reqs[cur].req.body.object = "page"
    /\ k > Len(Events(reqs[cur].req))
    /\ reqs' = IF \E c \in pending : handled[c.ev].req = cur
               THEN reqs
               ELSE [reqs EXCEPT ![cur].responses = Append(@, StatusOK)]
    /\ pc' = "idle"
    /\ UNCHANGED <<variant, mock, crashed, k, handled, log, pending, timers, netBusy>>

\* After the loops: res.sendStatus(200).
Respond ==
    /\ pc = "handler"
    /\ reqs[cur].req.body.object = "page"
    /\ k > Len(Events(reqs[cur].req))
    /\ reqs' = [reqs EXCEPT ![cur].responses = Append(@, StatusOK)]
    /\ pc' = "idle"
    /\ UNCHANGED <<variant, mock, crashed, k, handled, log, pending, timers, netBusy>>

\* Faulty variant of Ignore: a body that is not a page subscription is refused
\* with a status.
IgnoreWithStatus ==
    /\ pc = "handler"
    /\ reqs[cur].req.body.object # "page"
    /\ reqs' = [reqs EXCEPT ![cur].responses = Append(@, 404)]
    /\ pc' = "idle"
    /\ UNCHANGED <<variant, mock, crashed, k, handled, log, pending, timers, netBusy>>

\* data.object is not 'page': the handler returns without doing anything.
Ignore ==
    /\ pc = "handler"
    /\ reqs[cur].req.body.object # "page"
    /\ pc' = "idle"
    /\ UNCHANGED <<variant, mock, crashed, k, reqs, handled, log, pending, timers, netBusy>>

\* The search collaborator invokes the callback of call c with result r,
\* once and as a task of its own.
SearchComplete(c, r) ==
    /\ pc = "idle" /\ ~crashed
    /\ c \in pending
    /\ handled' = [handled EXCEPT ![c.ev].results = Append(@, r)]
    /\ Run(c.ev, CallbackOps(variant, c, r), "search", 0, Answered(c.ev),
           log, pending \ {c}, timers)
    /\ UNCHANGED <<variant, mock, crashed, pc, k, reqs>>

\* A timer fires.
TimerFire(t) ==
    /\ pc = "idle" /\ ~crashed
    /\ t \in timers
    /\ Run(t.ev, t.then, "timer", t.delay, Answered(t.ev), log, pending, timers \ {t})
    /\ UNCHANGED <<variant, mock, crashed, pc, k, reqs, handled>>

\* A Send API request completes and its callback runs; last says whether no
\* other request is left awaiting its callback.
SendComplete(outcome, last) ==
    /\ pc = "idle" /\ ~crashed
    /\ netBusy
    /\ netBusy' = ~last
    /\ crashed' = ((IF variant = "app" THEN callSendAPICallback(outcome)
                                       ELSE fbCallSendAPICallback(outcome)) = "throw")
    /\ UNCHANGED <<variant, mock, pc, k, reqs, handled, log, pending, timers>>

----------------------------------------------------------------------------
(* What the platform may send *)

Senders == {"u1", "u2"}

Msg(sender, text) == Event(sender, {"message"}, FALSE, FALSE, TRUE, text, "")

Postback(sender, payload) == Event(sender, {"postback"}, FALSE, FALSE, FALSE, <<>>, payload)

Tagged(sender, tags) == Event(sender, tags, FALSE, FALSE, FALSE, <<>>, "Q5598")

\* all sequences over S of length at most n
SeqsUpTo(S, n) == UNION {[1..m -> S] : m \in 0..n}

\* a batch of events as the entry array of a body: all in one entry, or one
\* entry per event
EntryShapes(batch) ==
    {<<[messaging |-> batch]>>, [i \in 1..Len(batch) |-> [messaging |-> <<batch[i]>>]]}

Body(object, entry) == [object |-> object, entry |-> entry]

NoHeader == [present |-> FALSE, parts |-> <<>>]

Header(parts) == [present |-> TRUE, parts |-> parts]

\* the header a caller who knows the app secret computes for the body
Signed(body) == Header(<<Lit("sha1"), Hmac(APP_SECRET, body)>>)

Forged(body) == Header(<<Lit("sha1"), Hmac("guessed-secret", body)>>)

Request(signature, body) == [signature |-> signature, body |-> body]

\* The events of the concurrent specification: the two asynchronous paths, two
\* senders, and an event with no known tag.
CoreEvents ==
    {Msg("u1", <<"a">>), Msg("u2", <<"a">>), Postback("u2", "Q5598"), Tagged("u1", {})}

\* its requests: correctly signed page bodies carrying from one to n events
CoreRequests(n) ==
    UNION {{Request(Signed(Body("page", entry)), Body("page", entry)) :
               entry \in EntryShapes(batch)} : batch \in SeqsUpTo(CoreEvents, n) \ {<<>>}}

\* its search results: an error, and an image with a collection
CoreOutcomes ==
    {r \in SearchOutcomes :
        r.err # "" \/ (r.type = "images" /\ r.images.collection # "" /\ r.images.url = "")}

\* the number of events the requests received so far carried
RECURSIVE Carried(_)
Carried(rs) == IF rs = <<>> THEN 0 ELSE Len(Events(Head(rs).req)) + Carried(Tail(rs))

Receive ==
    /\ pc = "idle" /\ ~crashed
    /\ \E req \in CoreRequests(MaxEvents - Carried(reqs)) : Arrive(req)

Complete ==
    \/ \E c \in pending, r \in CoreOutcomes : SearchComplete(c, r)
    \/ \E t \in timers : TimerFire(t)
    \/ \E outcome \in SendOutcomes, last \in BOOLEAN : SendComplete(outcome, last)

Next ==
    \/ Receive
    \/ Verify
    \/ DispatchEvent
    \/ Respond
    \/ Complete

Spec == Init /\ [][Next]_vars

----------------------------------------------------------------------------
(* The specification of one request carrying at most one event, with every *)
(* combination of tags, every message shape, texts of up to MaxTextLen     *)
(* characters, every kind of signature header and every search result.     *)

FreeChars == {" ", "-", "a", "A"}

SampleTexts ==
    {<<"u", "t", "r", "e", "c", "h", "t">>,
     <<" ", "U", "t", "r", "e", "c", "H", "T", "\t">>,
     <<"u", "t", "r", "e", "c", "h", "t", "-">>,
     <<"u", "t", "r", "e", "c", "h", "t", "s">>,
     <<"s", "u", "r", "p", "r", "i", "s", "e">>,
     <<"\t", "S", "U", "R", "P", "R", "I", "S", "E", " ">>,
     <<"1", "9", "9", "0", "-", "2", "0", "0", "0">>,
     <<" ", "1", "9", "9", "0", " ", "-", " ", "2", "0", "0", "0", " ">>,
     <<"1", "9", "9", "0", "-", "2", "0", "0", "0", "-", "2", "0", "1", "0">>}

Texts == SeqsUpTo(FreeChars, MaxTextLen) \cup SampleTexts

\* events with any set of tags; the message fields vary under the message tag
TagEvents ==
    {Event(s, tags, FALSE, FALSE, FALSE, <<>>, "Q5598") :
        s \in Senders, tags \in {T \in SUBSET Tags : "message" \notin T}}
    \cup {Event(s, tags, e, q, h, IF h THEN <<"a">> ELSE <<>>, "Q5598") :
            s \in Senders, tags \in {T \in SUBSET Tags : "message" \in T},
            e \in BOOLEAN, q \in BOOLEAN, h \in BOOLEAN}

\* message events with any text
TextEvents ==
    {Event("u1", {"message"}, e, q, TRUE, t, "") : e \in BOOLEAN, q \in BOOLEAN, t \in Texts}

\* the signature headers a caller may send with a body
Headers(body) ==
    {NoHeader,
     Header(<<Lit("")>>),
     Signed(body),
     Forged(body),
     Header(<<Lit("sha1"), Hmac(APP_SECRET, Body("page", <<>>))>>),
     Header(<<Lit("sha1"), Lit("da39a3ee")>>),
     Header(<<Lit("sha1")>>),
     Header(<<Lit("md5"), Hmac(APP_SECRET, body)>>)}

GateEntries ==
    {<<>>, <<[messaging |-> <<>>]>>,
     <<[messaging |-> <<Msg("u1", <<"a">>)>>]>>,
     <<[messaging |-> <<Postback("u2", "Q5598")>>]>>}

OneRequests ==
    {Request(Signed(Body("page", <<[messaging |-> <<e>>]>>)),
             Body("page", <<[messaging |-> <<e>>]>>)) : e \in TagEvents \cup TextEvents}
    \cup UNION {{Request(h, Body(object, entry)) : h \in Headers(Body(object, entry))} :
                   object \in {"page", "user"}, entry \in GateEntries}

ReceiveOne ==
    /\ pc = "idle" /\ ~crashed
    /\ reqs = <<>>
    /\ \E req \in OneRequests : Arrive(req)

CompleteOne ==
    \/ \E c \in pending, r \in SearchOutcomes : SearchComplete(c, r)
    \/ \E t \in timers : TimerFire(t)
    \/ \E outcome \in SendOutcomes, last \in BOOLEAN : SendComplete(outcome, last)

NextOne ==
    \/ ReceiveOne
    \/ Verify
    \/ DispatchEvent
    \/ Respond
    \/ Ignore
    \/ CompleteOne

SpecOne == Init /\ [][NextOne]_vars

\* The program under the scheduling of the event loop, for one request that
\* carries one message or one postback: a task that has started runs to its end,
\* and a timer that is due is run.
LiveRequests ==
    {Request(Signed(Body("page", <<[messaging |-> <<e>>]>>)),
             Body("page", <<[messaging |-> <<e>>]>>)) :
        e \in {Msg("u1", <<"a">>), Postback("u2", "Q5598")}}

ReceiveLive ==
    /\ pc = "idle" /\ ~crashed
    /\ reqs = <<>>
    /\ \E req \in LiveRequests : Arrive(req)

NextLive ==
    \/ ReceiveLive
    \/ Verify
    \/ DispatchEvent
    \/ Respond
    \/ CompleteOne

SpecLive ==
    /\ Init /\ [][NextLive]_vars
    /\ WF_vars(Verify \/ DispatchEvent \/ Respond)
    /\ WF_vars(\E t \in timers : TimerFire(t))

----------------------------------------------------------------------------
(* Properties *)

\* the handling of request r has ended
Finished(r) == r < Len(reqs) \/ pc = "idle"

\* request r passed the signature hook and reached the route handler
Accepted(r) == reqs[r].verdict \in {"ok", "logged"}

IsPage(r) == reqs[r].req.body.object = "page"

EventsOf(r) == {ev \in 1..Len(handled) : handled[ev].req = r}

LeastOf(S) == CHOOSE x \in S : \A y \in S : x <= y

\* the positions of log[ev] that hold a send, a search call, a timer
SendsAt(ev) == {i \in 1..Len(log[ev]) : log[ev][i].o.op = "send"}

CallsAt(ev) == {i \in 1..Len(log[ev]) : log[ev][i].o.op = "call"}

TimersAt(ev) == {i \in 1..Len(log[ev]) : log[ev][i].o.op = "timer"}

\* the positions of log[ev] written by a search callback or a timer
LaterAt(ev) == {i \in 1..Len(log[ev]) : log[ev][i].via # "handler"}

\* C1: a POST /webhook request with object "page" that reaches the handler is
\* answered with status 200 exactly once, after every event of every entry has
\* been dispatched, whatever its events start.
C1_Responds200Once ==
    \A r \in 1..Len(reqs) :
        (IsPage(r) /\ Accepted(r)) =>
            /\ reqs[r].responses \in {<<>>, <<200>>}
            /\ (reqs[r].responses # <<>> => reqs[r].dispatched = Len(Events(reqs[r].req)))
            /\ (Finished(r) => reqs[r].responses = <<200>>)

\* C1 witness: a request of two entries was answered with one 200, one of its
\* searches has failed since, and a Send API request has failed after it.
C1_Witness ==
    \E r \in 1..Len(reqs) :
        /\ Finished(r) /\ IsPage(r)
        /\ Len(reqs[r].req.body.entry) = 2
        /\ reqs[r].responses = <<200>>
        /\ \E ev \in EventsOf(r) :
              handled[ev].results # <<>> /\ handled[ev].results[1].err # ""
        /\ crashed

\* C2: the 200 of a request is out before any search callback of one of its
\* events runs and before any timer started for one of its events fires.
C2_ResponseBeforeCallbacks ==
    /\ \A ev \in 1..Len(log) : \A i \in LaterAt(ev) : log[ev][i].answered
    /\ pc = "idle" =>
          /\ \A c \in pending : Answered(c.ev)
          /\ \A t \in timers : Answered(t.ev)

\* C2 witness: a search callback has run and the 3 s, 4 s and 5 s timers have
\* fired, all after the responses.
C2_Witness ==
    \E e1 \in 1..Len(log), e2 \in 1..Len(log) :
        /\ \E i \in LaterAt(e1) : log[e1][i].via = "timer" /\ log[e1][i].after = 3000
        /\ \E i \in LaterAt(e1) : log[e1][i].via = "timer" /\ log[e1][i].after = 4000
        /\ \E i \in LaterAt(e2) : log[e2][i].via = "timer" /\ log[e2][i].after = 5000
        /\ \E i \in LaterAt(e2) : log[e2][i].via = "search"

\* the handler-side part of log[ev]: what the handler itself did
HandlerPart(ev) == SelectSeq(log[ev], LAMBDA x : x.via = "handler")

\* the tag orders of the two dispatchers, and the order the specification gives
AppOrder == <<"optin", "message", "delivery", "postback", "read", "account_linking">>

LibOrder == <<"message", "delivery", "postback", "read">>

ClaimedOrder == <<"message", "postback", "delivery", "read", "optin", "account_linking">>

\* the first tag of order that the event carries, "" when it carries none
FirstTag(order, tags) ==
    IF \E i \in 1..Len(order) : order[i] \in tags
    THEN order[LeastOf({i \in 1..Len(order) : order[i] \in tags})]
    ELSE ""

\* Event ev was handled by the handler of tag, and by no other: read off what
\* the dispatch left in the log.
HandledAs(ev, tag) ==
    LET e == handled[ev].event
        H == HandlerPart(ev)
        paintings == {i \in 1..Len(H) : H[i].o.op = "call" /\ H[i].o.fn = "paintingsByArtist"}
        auth == {i \in 1..Len(H) : H[i].o.op = "send"
                                     /\ H[i].o.body = <<"Authentication successful">>}
    IN  CASE tag = "optin" ->
                /\ handled[ev].handler = "receivedAuthentication"
                /\ Len(H) = 1 /\ auth = {1} /\ H[1].o.to = e.sender
          [] tag = "postback" ->
                /\ handled[ev].handler = "receivedPostback"
                /\ Len(H) = 2 /\ paintings = {1} /\ H[1].o.args = <<e.payload>>
                /\ H[2].o.op = "send" /\ H[2].o.to = e.sender
          [] tag = "message" ->
                /\ handled[ev].handler = "receivedMessage"
                /\ paintings = {} /\ auth = {}
                /\ (~e.is_echo => Len(H) >= 1)
          [] tag = "delivery" ->
                handled[ev].handler = "receivedDeliveryConfirmation" /\ log[ev] = <<>>
          [] tag = "read" ->
                handled[ev].handler = "receivedMessageRead" /\ log[ev] = <<>>
          [] tag = "account_linking" ->
                handled[ev].handler = "receivedAccountLink" /\ log[ev] = <<>>
          [] OTHER ->
                handled[ev].handler = "unknown" /\ log[ev] = <<>>

\* each event of a request is dispatched once, in order
DispatchedOnce(r) ==
    /\ Cardinality(EventsOf(r)) = reqs[r].dispatched
    /\ reqs[r].dispatched <= Len(Events(reqs[r].req))
    /\ \A ev \in EventsOf(r) :
          \E j \in 1..reqs[r].dispatched :
              /\ handled[ev].event = Events(reqs[r].req)[j]
              /\ Cardinality({x \in EventsOf(r) : x <= ev}) = j

\* C3 as stated: every event goes to the handler of its first tag in the order
\* message, postback, delivery, read, optin, accountLink.
C3_ClaimedOrder ==
    \A ev \in 1..Len(handled) :
        HandledAs(ev, FirstTag(ClaimedOrder, handled[ev].event.tags))

\* C3 amended: every event goes to exactly one handler, that of its first tag in
\* the order optin, message, delivery, postback, read, account_linking
\* (src/src/app.js) or message, delivery, postback, read (the fb-lib entry
\* file, where optin and account_linking have no handler); an event with none
\* of the tags of the order is only logged.
C3_DispatchOrder ==
    /\ \A r \in 1..Len(reqs) : DispatchedOnce(r)
    /\ \A ev \in 1..Len(handled) :
          HandledAs(ev, FirstTag(IF variant = "app" THEN AppOrder ELSE LibOrder,
                                 handled[ev].event.tags))

\* C3 witness: an event with both postback and delivery went to the delivery
\* handler, and nothing was sent for it.
C3_Witness ==
    \E ev \in 1..Len(handled) :
        /\ handled[ev].event.tags = {"postback", "delivery"}
        /\ handled[ev].handler = "receivedDeliveryConfirmation"
        /\ log[ev] = <<>>
        /\ Finished(handled[ev].req)

\* a message event: one whose only tag is message, or that the dispatcher gave
\* to the message handler
IsMessage(ev) ==
    \/ handled[ev].event.tags = {"message"}
    \/ ("message" \in handled[ev].event.tags /\ handled[ev].handler = "receivedMessage")

\* C4: an echoed message causes no send, no search call and no timer, whether or
\* not it has text or a quick reply.
C4_EchoSilent ==
    \A ev \in 1..Len(handled) :
        (IsMessage(ev) /\ handled[ev].event.is_echo) =>
            /\ log[ev] = <<>>
            /\ \A c \in pending : c.ev # ev
            /\ \A t \in timers : t.ev # ev

\* C4 witness: an echo that has both text and a quick reply was handled.
C4_Witness ==
    \E ev \in 1..Len(handled) :
        /\ handled[ev].event.tags = {"message"}
        /\ handled[ev].event.is_echo /\ handled[ev].event.quick_reply
        /\ handled[ev].event.hasText /\ handled[ev].event.text # <<>>
        /\ Finished(handled[ev].req)
        /\ reqs[handled[ev].req].responses = <<200>>

\* the header carries a digest: it has a piece after the first '='
CarriesDigest(h) == h.present /\ Len(h.parts) >= 2

\* C5: a request signed sha1=hmac_sha1(S, B) passes and is dispatched; a request
\* whose header carries another digest fails verification and none of its events
\* is dispatched.
C5_Signature ==
    \A r \in 1..Len(reqs) :
        LET q == reqs[r]
            h == q.req.signature
            expected == Hmac("app-secret", q.req.body)
        IN  q.verdict # "" =>
              /\ (h = Header(<<Lit("sha1"), expected>>) =>
                    /\ q.verdict = "ok"
                    /\ ((Finished(r) /\ IsPage(r)) =>
                           q.dispatched = Len(Events(q.req)) /\ DispatchedOnce(r)))
              /\ ((CarriesDigest(h) /\ h.parts[2] # expected) =>
                    /\ q.verdict = "throw"
                    /\ q.dispatched = 0 /\ EventsOf(r) = {}
                    /\ q.responses = <<>>)

\* C5 witness: a request with a digest made with another secret was rejected
\* with its event undispatched.
C5_Witness ==
    \E r \in 1..Len(reqs) :
        /\ reqs[r].req.signature = Forged(reqs[r].req.body)
        /\ IsPage(r) /\ Len(Events(reqs[r].req)) = 1
        /\ reqs[r].verdict = "throw"
        /\ pc = "idle" /\ handled = <<>>

\* C6: a request without the x-hub-signature header is not rejected: its events
\* are dispatched and it is answered like a signed one.
C6_MissingHeaderPasses ==
    \A r \in 1..Len(reqs) :
        (~reqs[r].req.signature.present /\ reqs[r].verdict # "") =>
            /\ reqs[r].verdict = "logged"
            /\ DispatchedOnce(r)
            /\ ((Finished(r) /\ IsPage(r)) =>
                   /\ reqs[r].dispatched = Len(Events(reqs[r].req))
                   /\ reqs[r].responses = <<200>>
                   /\ \A ev \in EventsOf(r) : handled[ev].event.tags = {"message"} => log[ev] # <<>>)

\* C6 witness: a request without the header had its message event handled.
C6_Witness ==
    \E r \in 1..Len(reqs) :
        /\ ~reqs[r].req.signature.present
        /\ IsPage(r) /\ Finished(r)
        /\ \E ev \in EventsOf(r) : handled[ev].handler = "receivedMessage" /\ Len(log[ev]) >= 3

\* The normal form of a text, stated apart from the operators of the model:
\* the text between its first and last non-blank character, letters lowered.
Blank == {" ", "\t"}

LowerPairs ==
    {<<"A", "a">>, <<"U", "u">>, <<"T", "t">>, <<"R", "r">>, <<"E", "e">>,
     <<"C", "c">>, <<"H", "h">>, <<"S", "s">>, <<"P", "p">>, <<"I", "i">>}

Lowered(c) ==
    IF \E pr \in LowerPairs : pr[1] = c
    THEN (CHOOSE pr \in LowerPairs : pr[1] = c)[2]
    ELSE c

Normal(t) ==
    LET I == {i \in 1..Len(t) : t[i] \notin Blank}
    IN  IF I = {} THEN <<>>
        ELSE LET lo == LeastOf(I)
                 hi == CHOOSE x \in I : \A y \in I : y <= x
             IN  [i \in 1..(hi - lo + 1) |-> Lowered(t[lo + i - 1])]

HyphensOf(p) == {i \in 1..Len(p) : p[i] = "-"}

\* a message the handler answers from its text: not an echo, no quick reply
IsPlainMessage(ev) ==
    /\ handled[ev].event.tags = {"message"}
    /\ ~handled[ev].event.is_echo
    /\ ~handled[ev].event.quick_reply

HasText(ev) == handled[ev].event.hasText /\ handled[ev].event.text # <<>>

\* the one search call of event ev is fn(args), made by the handler
OneCall(ev, fn, args) ==
    /\ Cardinality(CallsAt(ev)) = 1
    /\ LET x == log[ev][LeastOf(CallsAt(ev))]
       IN  x.via = "handler" /\ x.o.fn = fn /\ x.o.args = args /\ x.o.to = handled[ev].event.sender

\* C7 as stated: a text with a hyphen is split at the hyphen into dateA (before)
\* and dateB (all that follows), and painterByDate(dateB, dateA) is called.
C7_WholeRest ==
    \A ev \in 1..Len(handled) :
        LET p == Normal(handled[ev].event.text)
        IN  (IsPlainMessage(ev) /\ HasText(ev) /\ HyphensOf(p) # {}) =>
                LET h == LeastOf(HyphensOf(p))
                IN  OneCall(ev, "painterByDate",
                            <<SubSeq(p, h + 1, Len(p)), SubSeq(p, 1, h - 1)>>)

\* C7 amended: dateA is the text before the first hyphen and dateB the text
\* between the first hyphen and the second one (or the end of the text when
\* there is no second hyphen); painterByDate(dateB, dateA) is called.
C7_DatesSwapped ==
    \A ev \in 1..Len(handled) :
        LET p == Normal(handled[ev].event.text)
        IN  (IsPlainMessage(ev) /\ HasText(ev) /\ HyphensOf(p) # {}) =>
                LET h == LeastOf(HyphensOf(p))
                    rest == HyphensOf(p) \ {h}
                    stop == IF rest = {} THEN Len(p) + 1 ELSE LeastOf(rest)
                IN  OneCall(ev, "painterByDate",
                            <<SubSeq(p, h + 1, stop - 1), SubSeq(p, 1, h - 1)>>)

\* C7 witness: "1990-2000" led to painterByDate("2000", "1990").
C7_Witness ==
    \E ev \in 1..Len(handled) :
        /\ IsPlainMessage(ev)
        /\ handled[ev].event.text = <<"1", "9", "9", "0", "-", "2", "0", "0", "0">>
        /\ OneCall(ev, "painterByDate", <<<<"2", "0", "0", "0">>, <<"1", "9", "9", "0">>>>)

\* C8: a plain message triggers exactly one action chosen from its normal form:
\* a hyphen -> painterByDate; "utrecht" -> getMonuments; "surprise" ->
\* randomArtist; any other text -> searchPainters(normal form); no text -> no
\* search call, no typing-on, one "didn't understand" text.
C8_OneAction ==
    \A ev \in 1..Len(handled) :
        IsPlainMessage(ev) =>
            LET p == Normal(handled[ev].event.text)
            IN  IF HasText(ev)
                THEN /\ Cardinality(CallsAt(ev)) = 1
                     /\ log[ev][LeastOf(CallsAt(ev))].via = "handler"
                     /\ LET c == log[ev][LeastOf(CallsAt(ev))].o
                        IN  IF HyphensOf(p) # {} THEN c.fn = "painterByDate"
                            ELSE IF p = <<"u", "t", "r", "e", "c", "h", "t">>
                            THEN c.fn = "getMonuments" /\ c.args = <<>>
                            ELSE IF p = <<"s", "u", "r", "p", "r", "i", "s", "e">>
                            THEN c.fn = "randomArtist" /\ c.args = <<>>
                            ELSE c.fn = "searchPainters" /\ c.args = <<p>>
                ELSE /\ Len(log[ev]) = 1
                     /\ log[ev][1].o = Send(handled[ev].event.sender, "text",
                                            <<"Sorry, dit snap ik even niet.">>, <<>>)

\* C8 witness: " UtrecHT<tab>" led to getMonuments.
C8_Witness ==
    \E ev \in 1..Len(handled) :
        /\ IsPlainMessage(ev)
        /\ handled[ev].event.text = <<" ", "U", "t", "r", "e", "c", "H", "T", "\t">>
        /\ OneCall(ev, "getMonuments", <<>>)

\* event ev had a search of the message path complete
MessageSearchDone(ev) ==
    /\ handled[ev].results # <<>>
    /\ \E i \in CallsAt(ev) : log[ev][i].o.cb = "handleSearchResponse"

\* C9: on the message path, the first thing a search completion sends is the
\* typing-off action, whatever the outcome.
C9_TypingOffFirst ==
    \A ev \in 1..Len(handled) :
        MessageSearchDone(ev) =>
            /\ LaterAt(ev) # {}
            /\ LET x == log[ev][LeastOf(LaterAt(ev))]
               IN  /\ x.via = "search"
                   /\ x.o = Send(handled[ev].event.sender, "typing_off", <<>>, <<>>)

\* C9 witness: completions with an error and with results of every type.
C9_Witness ==
    \E ev \in 1..Len(handled) :
        /\ MessageSearchDone(ev)
        /\ handled[ev].results[1].type = "images"
        /\ \E i \in SendsAt(ev) : log[ev][i].o.kind = "image"
        /\ \E i \in SendsAt(ev) : log[ev][i].o.kind = "typing_off"

\* C10: for a message with text, the "searching" text and then the typing-on
\* action are sent by the handler, before the search callback and everything it
\* sends.
C10_AckThenTypingOn ==
    \A ev \in 1..Len(handled) :
        (IsPlainMessage(ev) /\ HasText(ev)) =>
            /\ Len(log[ev]) >= 3
            /\ log[ev][1].via = "handler"
            /\ log[ev][1].o = Send(handled[ev].event.sender, "text",
                                   <<"Ik ben nu aan het zoeken, een momentje...">>, <<>>)
            /\ log[ev][2].via = "handler"
            /\ log[ev][2].o = Send(handled[ev].event.sender, "typing_on", <<>>, <<>>)
            /\ \A i \in LaterAt(ev) : i > 2
            /\ \A i \in SendsAt(ev) : i > 2 => log[ev][i].via # "handler"

\* C10 witness: the search of such a message has completed and its result was sent.
C10_Witness ==
    \E ev \in 1..Len(handled) :
        /\ IsPlainMessage(ev) /\ HasText(ev)
        /\ handled[ev].results # <<>>
        /\ \E i \in SendsAt(ev) : log[ev][i].o.kind = "typing_off"
        /\ \E i \in SendsAt(ev) : log[ev][i].o.kind = "template"

\* what a search callback did for event ev, in order (one callback per event)
SearchPart(ev) ==
    LET S == {i \in 1..Len(log[ev]) : log[ev][i].via = "search"}
    IN  IF S = {} THEN <<>>
        ELSE [j \in 1..Cardinality(S) |-> log[ev][LeastOf(S) + j - 1].o]

\* what the timers of event ev set for `delay` sent when they fired, in order
TimerPart(ev, delay) ==
    LET S == {i \in 1..Len(log[ev]) : log[ev][i].via = "timer" /\ log[ev][i].after = delay}
    IN  IF S = {} THEN <<>>
        ELSE [j \in 1..Cardinality(S) |-> log[ev][LeastOf(S) + j - 1].o]

\* the timers of event ev set for `delay` that have not fired yet
Waiting(ev, delay) == {t \in timers : t.ev = ev /\ t.delay = delay}

OffTo(u) == Send(u, "typing_off", <<>>, <<>>)

TextTo(u, pieces) == Send(u, "text", pieces, <<>>)

\* the button message built from a result's button list
ButtonsTo(u, list) ==
    Send(u, "template", <<list.text>>,
         [i \in 1..Len(list.data) |->
             [type |-> "postback", title |-> list.data[i].title,
              target |-> <<list.data[i].payload>>]])

LinkTo(u, url) ==
    Send(u, "template", <<"Wil je meer weten?">>,
         <<[type |-> "web_url", title |-> "Lees verder", target |-> url]>>)

SocialTo(u) ==
    TextTo(u, <<"N mensen zagen deze afbeelding ook, M mensen kijken op dit moment">>)

CaptionTo(u, im) == TextTo(u, <<"Je gaat zo zien: ", im.label, ", ", im.description>>)

WikidataURL(id) == <<"http://www.wikidata.org/wiki/", id>>

\* C11: on the message path a completion with an error, with buttons or with a
\* text sends, after the typing-off, exactly one message: the error message as
\* text, the button message of the result's buttons, or the result's text
\* verbatim; and it sets no timer.
C11_OneContentSend ==
    \A ev \in 1..Len(handled) :
        MessageSearchDone(ev) =>
            LET r == handled[ev].results[1]
                u == handled[ev].event.sender
            IN  /\ r.err # "" =>
                      SearchPart(ev) = <<OffTo(u), TextTo(u, <<r.err>>)>> /\ TimersAt(ev) = {}
                /\ (r.err = "" /\ r.type = "buttons") =>
                      SearchPart(ev) = <<OffTo(u), ButtonsTo(u, r.buttons)>> /\ TimersAt(ev) = {}
                /\ (r.err = "" /\ r.type = "text") =>
                      SearchPart(ev) = <<OffTo(u), TextTo(u, <<r.text>>)>> /\ TimersAt(ev) = {}

\* C11 witness: a search of the message path completed with an error and the
\* error text went out after the typing-off.
C11_Witness ==
    \E ev \in 1..Len(handled) :
        /\ MessageSearchDone(ev)
        /\ handled[ev].results[1].err = "zoeken mislukt"
        /\ Len(SearchPart(ev)) = 2
        /\ SearchPart(ev)[2].kind = "text"

\* C12: on the message path an images result sends, after the typing-off, the
\* caption and then the image, and sets two timers: one of 4 seconds for the
\* social-proof text and one of 3 seconds for the link to the reference URL of
\* the result's id.  Each of the two is at every moment either still set or has
\* fired once and sent exactly its message: none fires twice and the firing of
\* one does not cancel the other.
C12_ImagesThenTwoTimers ==
    \A ev \in 1..Len(handled) :
        (MessageSearchDone(ev) /\ handled[ev].results[1].err = ""
                               /\ handled[ev].results[1].type = "images") =>
            LET im == handled[ev].results[1].images
                u == handled[ev].event.sender
                sp == SearchPart(ev)
            IN  /\ Len(sp) = 5
                /\ SubSeq(sp, 1, 3) =
                       <<OffTo(u), CaptionTo(u, im), Send(u, "image", sp[3].body, <<>>)>>
                /\ sp[3].body[1] = im.image
                /\ {sp[4], sp[5]} =
                       {Timer(4000, <<SocialTo(u)>>), Timer(3000, <<LinkTo(u, WikidataURL(im.id))>>)}
                /\ TimerPart(ev, 4000) = (IF Waiting(ev, 4000) = {} THEN <<SocialTo(u)>> ELSE <<>>)
                /\ TimerPart(ev, 3000) =
                       (IF Waiting(ev, 3000) = {} THEN <<LinkTo(u, WikidataURL(im.id))>> ELSE <<>>)
                /\ Cardinality(Waiting(ev, 4000)) <= 1
                /\ Cardinality(Waiting(ev, 3000)) <= 1
                /\ Len(log[ev]) = 3 + 5 + Len(TimerPart(ev, 4000)) + Len(TimerPart(ev, 3000))

\* C12 witness: the 4-second timer has fired while the 3-second timer is still set.
C12_Witness ==
    \E ev \in 1..Len(handled) :
        /\ MessageSearchDone(ev)
        /\ handled[ev].results[1].type = "images"
        /\ TimerPart(ev, 4000) # <<>>
        /\ Waiting(ev, 3000) # {}

IsPostback(ev) == handled[ev].handler = "receivedPostback"

\* the paintingsByArtist search of postback event ev has completed
PostbackDone(ev) == IsPostback(ev) /\ handled[ev].results # <<>>

\* C13: a postback event makes exactly one paintingsByArtist(payload) call and
\* its handler sends the "fetching a painting" text; both are done by the handler
\* itself, before anything the search completion or a timer sends.
C13_AckWithoutWaiting ==
    \A ev \in 1..Len(handled) :
        IsPostback(ev) =>
            LET u == handled[ev].event.sender
                H == {i \in 1..Len(log[ev]) : log[ev][i].via = "handler"}
            IN  /\ OneCall(ev, "paintingsByArtist", <<handled[ev].event.payload>>)
                /\ H = {1, 2}
                /\ \E i \in H :
                       log[ev][i].o = TextTo(u, <<"Ik ben nu een schilderij aan het ophalen...">>)
                /\ \A i \in LaterAt(ev) : i > 2

\* C13 witness: the search of a postback completed and its result was sent
\* after the acknowledgment.
C13_Witness ==
    \E ev \in 1..Len(handled) :
        /\ PostbackDone(ev)
        /\ Len(log[ev]) > 2
        /\ log[ev][3].via = "search"
        /\ log[ev][3].o.op = "send"

\* C14 as stated: on the postback path an error sends exactly one text whose
\* content is the error itself, and nothing else.
C14_ErrorVerbatim ==
    \A ev \in 1..Len(handled) :
        (PostbackDone(ev) /\ handled[ev].results[1].err # "") =>
            /\ SearchPart(ev) = <<TextTo(handled[ev].event.sender, <<handled[ev].results[1].err>>)>>
            /\ TimersAt(ev) = {}

\* C14 amended: on the postback path an error sends exactly one text, "Er ging
\* iets mis: " followed by the error as text, and no image, button, link or timer.
C14_ErrorPrefixed ==
    \A ev \in 1..Len(handled) :
        (PostbackDone(ev) /\ handled[ev].results[1].err # "") =>
            /\ SearchPart(ev) = <<TextTo(handled[ev].event.sender,
                                         <<"Er ging iets mis: ", handled[ev].results[1].err>>)>>
            /\ TimersAt(ev) = {}
            /\ Len(log[ev]) = 3

\* C14 witness: a paintingsByArtist search completed with an error.
C14_Witness ==
    \E ev \in 1..Len(handled) :
        /\ PostbackDone(ev)
        /\ handled[ev].results[1].err = "zoeken mislukt"
        /\ Len(log[ev]) = 3

\* a completed postback search with an images result
PostbackImages(ev) ==
    /\ PostbackDone(ev)
    /\ handled[ev].results[1].err = ""
    /\ handled[ev].results[1].type = "images"

\* what the 5-second timer sends for images record im
FollowUpTo(u, im) ==
    <<TextTo(u, <<"Dit kun je trouwens zien in de collectie van ", im.collection>>),
      LinkTo(u, IF im.url # "" THEN <<im.url>> ELSE WikidataURL(im.id)),
      Send(u, "template", <<"Nog een werk van deze schilder?">>,
           <<[type |-> "postback", title |-> "Ja, leuk!", target |-> <<im.author>>]>>)>>

\* C15: on the postback path an images result without a collection produces
\* exactly the caption text, the image and one timer of 4 seconds that sends the
\* social-proof text once; no 5-second timer and no collection text, link or
\* button (on the message path too, where the typing-off and the 3-second link
\* of that path come with the same result).
C15_NoCollectionNoFollowUp ==
    \A ev \in 1..Len(handled) :
        /\ (/\ handled[ev].results # <<>>
            /\ handled[ev].results[1].type = "images"
            /\ handled[ev].results[1].images.collection = "") =>
               /\ \A i \in TimersAt(ev) : log[ev][i].o.delay # 5000
               /\ TimerPart(ev, 5000) = <<>>
        /\ (PostbackImages(ev) /\ handled[ev].results[1].images.collection = "") =>
            LET im == handled[ev].results[1].images
                u == handled[ev].event.sender
                sp == SearchPart(ev)
            IN  /\ Len(sp) = 3
                /\ sp[1] = CaptionTo(u, im)
                /\ sp[2] = Send(u, "image", sp[2].body, <<>>) /\ sp[2].body[1] = im.image
                /\ sp[3] = Timer(4000, <<SocialTo(u)>>)
                /\ TimerPart(ev, 4000) = (IF Waiting(ev, 4000) = {} THEN <<SocialTo(u)>> ELSE <<>>)
                /\ Waiting(ev, 5000) = {}
                /\ Len(log[ev]) = 2 + 3 + Len(TimerPart(ev, 4000))

\* C15 witness: such a result was sent and its social-proof timer has fired.
C15_Witness ==
    \E ev \in 1..Len(handled) :
        /\ PostbackImages(ev)
        /\ handled[ev].results[1].images.collection = ""
        /\ TimerPart(ev, 4000) # <<>>

\* C16: on the postback path an images result with a collection sets, after the
\* caption, the image and the 4-second timer, one timer of 5 seconds which sends,
\* in this order, the text naming the collection, the link to the result's own
\* url (to the reference URL of its id when it has none) and a button message
\* with the single postback button whose payload is the result's author.
C16_CollectionFollowUp ==
    \A ev \in 1..Len(handled) :
        (PostbackImages(ev) /\ handled[ev].results[1].images.collection # "") =>
            LET im == handled[ev].results[1].images
                u == handled[ev].event.sender
                sp == SearchPart(ev)
            IN  /\ Len(sp) = 4
                /\ sp[1] = CaptionTo(u, im)
                /\ sp[2].kind = "image"
                /\ sp[3] = Timer(4000, <<SocialTo(u)>>)
                /\ sp[4] = Timer(5000, FollowUpTo(u, im))
                /\ Cardinality(Waiting(ev, 5000)) <= 1
                /\ TimerPart(ev, 5000) = (IF Waiting(ev, 5000) = {} THEN FollowUpTo(u, im) ELSE <<>>)
                /\ TimerPart(ev, 4000) = (IF Waiting(ev, 4000) = {} THEN <<SocialTo(u)>> ELSE <<>>)

\* C16 witness: the 5-second timer of a result with a collection and a url of
\* its own has fired.
C16_Witness ==
    \E ev \in 1..Len(handled) :
        /\ PostbackImages(ev)
        /\ handled[ev].results[1].images.collection = "Rijksmuseum"
        /\ handled[ev].results[1].images.url # ""
        /\ Len(TimerPart(ev, 5000)) = 3

\* C17: a failed send (a transport error without a response, or a status other
\* than 200) is only logged: its completion callback raises no exception and the
\* process keeps running.
C17_FailedSendSwallowed == ~crashed

\* C18: every timer a handler sets (3 s link, 4 s social proof, 5 s collection
\* follow-up) eventually fires: nothing cancels it.
C18_TimersFire ==
    \A d \in {LinkDelay, SocialDelay, CollectionDelay} :
        (\E t \in timers : t.delay = d) ~> (\A t \in timers : t.delay # d)

\* C19: a message that is not an echo and carries a quick reply gets exactly one
\* "Quick reply tapped" text and nothing else: no search call, no typing
\* indicator, no timer, also when it has text.
C19_QuickReplyAck ==
    \A ev \in 1..Len(handled) :
        (/\ handled[ev].handler = "receivedMessage"
         /\ ~handled[ev].event.is_echo
         /\ handled[ev].event.quick_reply) =>
            /\ Len(log[ev]) = 1
            /\ log[ev][1].via = "handler"
            /\ log[ev][1].o = TextTo(handled[ev].event.sender, <<"Quick reply tapped">>)
            /\ \A t \in timers : t.ev # ev
            /\ \A c \in pending : c.ev # ev

\* C19 witness: a quick reply that also has text was handled and answered.
C19_Witness ==
    \E ev \in 1..Len(handled) :
        /\ handled[ev].handler = "receivedMessage"
        /\ ~handled[ev].event.is_echo
        /\ handled[ev].event.quick_reply
        /\ handled[ev].event.hasText /\ handled[ev].event.text # <<>>
        /\ Len(log[ev]) = 1
        /\ pc = "idle"

OnlyOptin(ev) == handled[ev].event.tags = {"optin"}

\* C20 as stated: an event whose only tag is optin goes to the authentication
\* handler, which sends one confirmation text to the sender and makes no search
\* call.
C20_OptinConfirmed ==
    \A ev \in 1..Len(handled) :
        OnlyOptin(ev) =>
            /\ handled[ev].handler = "receivedAuthentication"
            /\ Len(log[ev]) = 1
            /\ log[ev][1].o = TextTo(handled[ev].event.sender, <<"Authentication successful">>)

\* C20 amended: in src/src/app.js such an event goes to the authentication
\* handler, which sends the one confirmation text and makes no search call; in
\* src/unnamed/part_000 it matches no branch, is logged as unimplemented and
\* nothing is sent.
C20_OptinByVariant ==
    \A ev \in 1..Len(handled) :
        OnlyOptin(ev) =>
            IF variant = "app"
            THEN /\ handled[ev].handler = "receivedAuthentication"
                 /\ Len(log[ev]) = 1
                 /\ log[ev][1].via = "handler"
                 /\ log[ev][1].o = TextTo(handled[ev].event.sender, <<"Authentication successful">>)
            ELSE /\ handled[ev].handler = "unknown"
                 /\ log[ev] = <<>>

\* C20 witness: src/src/app.js handled an optin event and answered it.
C20_Witness ==
    \E ev \in 1..Len(handled) :
        /\ OnlyOptin(ev)
        /\ variant = "app"
        /\ Len(log[ev]) = 1
        /\ pc = "idle"

\* some event has caused a send
SomeSend == \E ev \in 1..Len(handled) : SendsAt(ev) # {}

\* C21: in mock mode no send issues a request to the Send API: the payload is
\* logged only and no completion callback is left behind (so none ever runs).
C21_MockNoNetwork == mock => (~netBusy /\ ~crashed)

\* C21 witness: in mock mode sends were made, by a handler and by a search callback.
C21_Witness ==
    /\ mock
    /\ \E ev \in 1..Len(handled) :
           /\ \E i \in SendsAt(ev) : log[ev][i].via = "handler"
           /\ \E i \in SendsAt(ev) : log[ev][i].via = "search"

\* C22: a POST /webhook request whose body has an object other than "page"
\* has none of its events dispatched and never gets a response from the handler.
C22_NonPageUnanswered ==
    \A r \in 1..Len(reqs) :
        ~IsPage(r) =>
            /\ reqs[r].responses = <<>>
            /\ reqs[r].dispatched = 0
            /\ EventsOf(r) = {}

\* C22 witness: the handler has finished with a request that is not a page
\* subscription although it carries an event.
C22_Witness ==
    \E r \in 1..Len(reqs) :
        /\ ~IsPage(r)
        /\ Accepted(r)
        /\ Finished(r)
        /\ Events(reqs[r].req) # <<>>

TypingOnAt(ev) == {i \in SendsAt(ev) : log[ev][i].o.kind = "typing_on"}

TypingOffAt(ev) == {i \in SendsAt(ev) : log[ev][i].o.kind = "typing_off"}

SearchPending(ev) == \E c \in pending : c.ev = ev

\* C23: for every event, a typing-off is sent only after a typing-on to the same
\* recipient, never more typing-offs than typing-ons, and once the search of the
\* event has completed exactly one typing-off has followed the typing-on.
C23_TypingBalanced ==
    \A ev \in 1..Len(handled) :
        /\ Cardinality(TypingOnAt(ev)) <= 1
        /\ Cardinality(TypingOffAt(ev)) <= Cardinality(TypingOnAt(ev))
        /\ \A j \in TypingOffAt(ev) :
               \E i \in TypingOnAt(ev) : i < j /\ log[ev][i].o.to = log[ev][j].o.to
        /\ TypingOnAt(ev) # {} =>
               /\ CallsAt(ev) # {}
               /\ (~SearchPending(ev) => Cardinality(TypingOffAt(ev)) = 1)
               /\ (SearchPending(ev) => TypingOffAt(ev) = {})

\* C23 witness: a search of the message path failed and the typing indicator
\* was turned on and off once.
C23_Witness ==
    \E ev \in 1..Len(handled) :
        /\ MessageSearchDone(ev)
        /\ handled[ev].results[1].err # ""
        /\ Cardinality(TypingOnAt(ev)) = 1
        /\ Cardinality(TypingOffAt(ev)) = 1

\* the sends a timer operation makes when it fires are addressed to u
TimerTo(o, u) == \A i \in 1..Len(o.then) : o.then[i].to = u

\* C24: whatever the interleaving of events, callbacks and timers, every send
\* caused by an event (by its handler, its search callback or its timers) is
\* addressed to the sender of that event.
C24_AddressedToSender ==
    \A ev \in 1..Len(handled) :
        /\ \A i \in SendsAt(ev) : log[ev][i].o.to = handled[ev].event.sender
        /\ \A i \in TimersAt(ev) : TimerTo(log[ev][i].o, handled[ev].event.sender)

\* C24 witness: two events of different senders were in progress together; the
\* search of the first completed after the second was handled, and timers of
\* the first and the search of the second have sent.
C24_Witness ==
    /\ Len(handled) = 2
    /\ handled[1].event.sender # handled[2].event.sender
    /\ \E i \in SendsAt(1) : log[1][i].via = "search" /\ log[1][i].answered
    /\ \E i \in SendsAt(1) : log[1][i].via = "timer"
    /\ \E i \in SendsAt(2) : log[2][i].via = "search"

\* C25: on the postback path a completion without error whose result is not of
\* type images sends nothing and sets no timer: the acknowledgment is the only
\* message of that postback.
C25_PostbackOtherSilent ==
    \A ev \in 1..Len(handled) :
        (PostbackDone(ev) /\ handled[ev].results[1].err = ""
                          /\ handled[ev].results[1].type # "images") =>
            /\ Len(log[ev]) = 2
            /\ Cardinality(SendsAt(ev)) = 1
            /\ \A i \in SendsAt(ev) :
                   log[ev][i].o = TextTo(handled[ev].event.sender,
                                         <<"Ik ben nu een schilderij aan het ophalen...">>)
            /\ TimersAt(ev) = {}
            /\ \A t \in timers : t.ev # ev

\* C25 witness: a paintingsByArtist search completed with a buttons result.
C25_Witness ==
    \E ev \in 1..Len(handled) :
        /\ PostbackDone(ev)
        /\ handled[ev].results[1].type = "buttons"
        /\ ~SearchPending(ev)

=============================================================================
